---- MODULE Spec2Model ----
(***************************************************************************)
(* Difficulty-adjustment estimation engine of dsvspace (Doriancoin Space). *)
(*                                                                         *)
(* The estimators calculateASERTEstimate and calculateLWMAEstimate are     *)
(* pure functions of a block cache (an array of {height, timestamp,        *)
(* difficulty}) and, for LWMA, of the network name.  The state machine     *)
(* holds one block cache and the outcome of the last estimator call.       *)
(*                                                                         *)
(* calcDifficultyAdjustment, in its three variants (ASERT, LWMA and the    *)
(* simple trailing average), builds the report from an estimate and the    *)
(* chain context; getDifficultyAdjustment is the request entry point.  The *)
(* state machine also holds the arguments and the report of the last call. *)
(*                                                                         *)
(* JavaScript numbers are modelled as exact rationals [n, d] in lowest     *)
(* terms; Math.pow(2, x) is computed in fixed point with six decimals.     *)
(***************************************************************************)
EXTENDS Integers, Sequences, FiniteSets, TLC

VARIABLES
    blocksCache,   \* blocks.getBlocks(): sequence of block samples
    op,            \* which estimator ran last: "none", "asert" or "lwma"
    network,       \* the network argument of the last LWMA call ("" if none)
    result,        \* what the last estimator call returned
    args,          \* the last report call: entry point, variant, arguments
                   \* and the block array it read
    report         \* what the last report call returned

vars == <<blocksCache, op, network, result, args, report>>

----------------------------------------------------------------------------
(* Numbers *)

Abs(x) == IF x < 0 THEN -x ELSE x

Min(a, b) == IF a < b THEN a ELSE b

Max(a, b) == IF a > b THEN a ELSE b

RECURSIVE Gcd(_, _)
Gcd(a, b) == IF b = 0 THEN a ELSE Gcd(b, a % b)

\* The rational n/d in lowest terms with a positive denominator.  A zero
\* denominator (a division by zero) is kept as the non-finite value 1/0.
Rat(n, d) ==
    IF d = 0 THEN [n |-> 1, d |-> 0]
    ELSE LET g == Gcd(Abs(n), Abs(d))
             s == IF d < 0 THEN -1 ELSE 1
         IN  [n |-> (s * n) \div g, d |-> (s * d) \div g]

Num(k) == [n |-> k, d |-> 1]

IsFinite(a) == a.d # 0

RatAdd(a, b) == Rat(a.n * b.d + b.n * a.d, a.d * b.d)

RatSub(a, b) == Rat(a.n * b.d - b.n * a.d, a.d * b.d)

\* Common factors are taken out across the fraction bar before multiplying.
RatMul(a, b) ==
    IF a.d = 0 \/ b.d = 0 THEN Rat(1, 0)
    ELSE LET g1 == Gcd(Abs(a.n), b.d)
             g2 == Gcd(Abs(b.n), a.d)
         IN  Rat((a.n \div g1) * (b.n \div g2), (a.d \div g2) * (b.d \div g1))

RatDiv(a, b) ==
    IF b.d = 0 \/ b.n = 0 THEN Rat(1, 0)
    ELSE RatMul(a, IF b.n < 0 THEN [n |-> -b.d, d |-> -b.n] ELSE [n |-> b.d, d |-> b.n])

\* a/b < c/d for b, d > 0, by comparing integer parts and then the
\* reciprocals of the fractional parts (no product is formed).
RECURSIVE FracLess(_, _, _, _)
FracLess(a, b, c, d) ==
    LET qa == a \div b
        qc == c \div d
        ra == a % b
        rc == c % d
    IN  IF qa # qc THEN qa < qc
        ELSE IF rc = 0 THEN FALSE
        ELSE IF ra = 0 THEN TRUE
        ELSE FracLess(d, rc, b, ra)

\* Comparisons with a non-finite value are false, as with NaN.
RatLT(a, b) == IsFinite(a) /\ IsFinite(b) /\ FracLess(a.n, a.d, b.n, b.d)

RatGT(a, b) == RatLT(b, a)

RatLE(a, b) == IsFinite(a) /\ IsFinite(b) /\ ~FracLess(b.n, b.d, a.n, a.d)

----------------------------------------------------------------------------
(* Math.pow(2, x) in fixed point: SCALE units make 1. *)

SCALE == 1000000

\* ln 2 in SCALE units
LN2 == 693147

\* Number of terms of the exponential series that are summed.
EXP_TERMS == 10

\* a \div k rounded towards zero
TruncDiv(a, k) == IF a >= 0 THEN a \div k ELSE -((-a) \div k)

\* floor(r * 10^k / d) for 0 <= r < d, digit by digit
RECURSIVE FracDigits(_, _, _)
FracDigits(r, d, k) ==
    IF k = 0 THEN 0
    ELSE ((r * 10) \div d) * (10 ^ (k - 1)) + FracDigits((r * 10) % d, d, k - 1)

\* floor(a * SCALE) for a finite rational a
ToFixed(a) == (a.n \div a.d) * SCALE + FracDigits(a.n % a.d, a.d, 6)

\* a * b / SCALE rounded towards zero, for fixed-point a and b; the factors
\* are split in thousands so that no partial product leaves 32 bits.
MulFix(a, b) ==
    LET s  == IF (a < 0) = (b < 0) THEN 1 ELSE -1
        x  == Abs(a)
        y  == Abs(b)
        x1 == x \div 1000
        x0 == x % 1000
        y1 == y \div 1000
        y0 == y % 1000
    IN  s * (x1 * y1 + ((x1 * y0 + x0 * y1) * 1000 + x0 * y0) \div SCALE)

\* sum of the terms y^j / j! for j = k .. EXP_TERMS, term being y^(k-1)/(k-1)!
RECURSIVE ExpSeries(_, _, _)
ExpSeries(y, term, k) ==
    IF k > EXP_TERMS THEN 0
    ELSE LET next == TruncDiv(MulFix(term, y), k)
         IN  next + ExpSeries(y, next, k + 1)

\* e^y in fixed point
ExpFix(y) == SCALE + ExpSeries(y, SCALE, 1)

\* Math.pow(2, x) for a rational x, as a rational with denominator SCALE
Pow2(x) == Rat(ExpFix(MulFix(ToFixed(x), LN2)), SCALE)

----------------------------------------------------------------------------
(* Window selection and solve times, common to both estimators *)

BLOCK_SECONDS_TARGET == 150

ASERT_HALFLIFE == 3600

RECENT_BLOCKS_WINDOW == 45

\* b put into s, which is sorted by descending height, behind every sample
\* of greater height and before every sample of equal or smaller height.
InsertByHeight(b, s) ==
    LET k == Cardinality({j \in 1..Len(s) : s[j].height > b.height})
    IN  SubSeq(s, 1, k) \o <<b>> \o SubSeq(s, k + 1, Len(s))

\* Mutant: the window is taken in array order, without sorting.
SortByHeightDesc_None(blocks) == blocks

\* [...blocksCache].sort((a, b) => b.height - a.height): a stable sort of a
\* copy, newest first.
RECURSIVE SortByHeightDesc(_)
SortByHeightDesc(blocks) ==
    IF blocks = <<>> THEN <<>>
    ELSE InsertByHeight(Head(blocks), SortByHeightDesc(Tail(blocks)))

\* Mutant: the caller's array itself is sorted, blocksCache.sort(...).
CallerArray_SortedInPlace(blocks) == SortByHeightDesc(blocks)

\* [...blocksCache]: the sort works on a copy, so the array of the caller
\* keeps its elements and their order.
CallerArray(blocks) == blocks

\* Mutant: the lower clamp is forgotten.
ClampSolveTime_NoLower(solveTime) ==
    IF solveTime > 6 * BLOCK_SECONDS_TARGET THEN 6 * BLOCK_SECONDS_TARGET ELSE solveTime

\* Mutant: the upper clamp is forgotten.
ClampSolveTime_NoUpper(solveTime) ==
    IF solveTime < 1 THEN 1 ELSE solveTime

\* if (solveTime < 1) solveTime = 1; if (solveTime > 6 * T) solveTime = 6 * T;
ClampSolveTime(solveTime) ==
    LET low == IF solveTime < 1 THEN 1 ELSE solveTime
    IN  IF low > 6 * BLOCK_SECONDS_TARGET THEN 6 * BLOCK_SECONDS_TARGET ELSE low

\* Mutant: the solve time is used as it is, not clamped.
SolveTime_Raw(sortedBlocks, i) ==
    sortedBlocks[i + 1].timestamp - sortedBlocks[i + 2].timestamp

\* The clamped solve time of the pair (sortedBlocks[i], sortedBlocks[i + 1]),
\* i counted from 0 as in the code.
SolveTime(sortedBlocks, i) ==
    ClampSolveTime(sortedBlocks[i + 1].timestamp - sortedBlocks[i + 2].timestamp)

----------------------------------------------------------------------------
(* calculateASERTEstimate *)

\* Mutant: the window is not capped at RECENT_BLOCKS_WINDOW.
AsertBlocksAvailable_NoCap(sortedBlocks) == Len(sortedBlocks) - 1

\* Math.min(sortedBlocks.length - 1, RECENT_BLOCKS_WINDOW)
AsertBlocksAvailable(sortedBlocks) ==
    Min(Len(sortedBlocks) - 1, RECENT_BLOCKS_WINDOW)

\* Mutant: two samples are taken to be enough.
AsertInsufficient_One(blocksAvailable) == blocksAvailable < 1

\* if (blocksAvailable < 2) return the default
AsertInsufficient(blocksAvailable) == blocksAvailable < 2

AsertDefault ==
    [difficultyChange |-> Num(0), avgSolveTime |-> Num(BLOCK_SECONDS_TARGET)]

\* Mutant: the loop runs while i <= blocksAvailable, one pair too many.
RECURSIVE AsertLoop_OneMore(_, _, _, _)
AsertLoop_OneMore(sortedBlocks, blocksAvailable, i, acc) ==
    IF i > blocksAvailable THEN acc
    ELSE IF i + 2 > Len(sortedBlocks) THEN acc
    ELSE AsertLoop_OneMore(sortedBlocks, blocksAvailable, i + 1,
                   [totalSolveTime |-> acc.totalSolveTime + SolveTime(sortedBlocks, i),
                    count |-> acc.count + 1])

\* The for loop: acc holds totalSolveTime and count.
RECURSIVE AsertLoop(_, _, _, _)
AsertLoop(sortedBlocks, blocksAvailable, i, acc) ==
    IF i >= blocksAvailable THEN acc
    ELSE IF i + 2 > Len(sortedBlocks) THEN acc      \* if (!prevBlock) break
    ELSE AsertLoop(sortedBlocks, blocksAvailable, i + 1,
                   [totalSolveTime |-> acc.totalSolveTime + SolveTime(sortedBlocks, i),
                    count |-> acc.count + 1])

\* Mutant: the operands of the subtraction are swapped.
AsertExponent_Swapped(avgSolveTime) ==
    RatDiv(RatSub(avgSolveTime, Num(BLOCK_SECONDS_TARGET)), Num(ASERT_HALFLIFE))

\* const exponent = (T - avgSolveTime) / ASERT_HALFLIFE
AsertExponent(avgSolveTime) ==
    RatDiv(RatSub(Num(BLOCK_SECONDS_TARGET), avgSolveTime), Num(ASERT_HALFLIFE))

\* Mutant: a cap of +-10 percent is put on the estimate.
AsertDifficultyChange_Capped(avgSolveTime) ==
    LET change == RatMul(RatSub(Pow2(AsertExponent(avgSolveTime)), Num(1)), Num(100))
    IN  IF RatLT(change, Num(-10)) THEN Num(-10)
        ELSE IF RatLT(Num(10), change) THEN Num(10) ELSE change

\* const ratio = Math.pow(2, exponent); difficultyChange = (ratio - 1) * 100
AsertDifficultyChange(avgSolveTime) ==
    RatMul(RatSub(Pow2(AsertExponent(avgSolveTime)), Num(1)), Num(100))

\* Mutant: the total is divided by the number of samples, not of pairs.
calculateASERTEstimate_PerSample(cache) ==
    LET sortedBlocks == SortByHeightDesc(cache)
        blocksAvailable == AsertBlocksAvailable(sortedBlocks)
    IN  IF AsertInsufficient(blocksAvailable) THEN AsertDefault
        ELSE LET acc == AsertLoop(sortedBlocks, blocksAvailable, 0,
                                  [totalSolveTime |-> 0, count |-> 0])
             IN  IF acc.count = 0 THEN AsertDefault
                 ELSE LET avgSolveTime == Rat(acc.totalSolveTime, acc.count + 1)
                      IN  [difficultyChange |-> AsertDifficultyChange(avgSolveTime),
                           avgSolveTime |-> avgSolveTime]

calculateASERTEstimate(cache) ==
    LET sortedBlocks == SortByHeightDesc(cache)
        blocksAvailable == AsertBlocksAvailable(sortedBlocks)
    IN  IF AsertInsufficient(blocksAvailable) THEN AsertDefault
        ELSE LET acc == AsertLoop(sortedBlocks, blocksAvailable, 0,
                                  [totalSolveTime |-> 0, count |-> 0])
             IN  IF acc.count = 0 THEN AsertDefault
                 ELSE LET avgSolveTime == Rat(acc.totalSolveTime, acc.count)
                      IN  [difficultyChange |-> AsertDifficultyChange(avgSolveTime),
                           avgSolveTime |-> avgSolveTime]

----------------------------------------------------------------------------
(* calculateLWMAEstimate *)

LWMA_WINDOW == 45

LWMA_V2_ACTIVATION_HEIGHT == 1244300

LWMA_V2_ACTIVATION_HEIGHT_TESTNET == 200

\* Math.min(sortedBlocks.length - 1, N)
LwmaBlocksAvailable(sortedBlocks) ==
    Min(Len(sortedBlocks) - 1, LWMA_WINDOW)

LwmaDefault ==
    [difficultyChange |-> Num(0), weightedAvgSolvetime |-> Num(BLOCK_SECONDS_TARGET)]

\* const lwmaV2Height = network === 'testnet' ? ... : ...
LwmaV2Height(net) ==
    IF net = "testnet" THEN LWMA_V2_ACTIVATION_HEIGHT_TESTNET
    ELSE LWMA_V2_ACTIVATION_HEIGHT

\* Mutant: the activation height itself still counts as version 1.
UseLWMAv2_Strict(currentBlock, net) == currentBlock.height > LwmaV2Height(net)

\* const useLWMAv2 = currentBlock.height >= lwmaV2Height
UseLWMAv2(currentBlock, net) == currentBlock.height >= LwmaV2Height(net)

\* Mutant: the weights run the other way, the oldest pair weighing most.
LwmaWeight_Reversed(blocksAvailable, i) == i + 1

\* Mutant: the weights are one too low, blocksAvailable - 1 down to 0.
LwmaWeight_FromZero(blocksAvailable, i) == blocksAvailable - i - 1

\* const weight = blocksAvailable - i
LwmaWeight(blocksAvailable, i) == blocksAvailable - i

\* The for loop: acc holds sumWeightedSolvetimes and sumWeights.
RECURSIVE LwmaLoop(_, _, _, _)
LwmaLoop(sortedBlocks, blocksAvailable, i, acc) ==
    IF i >= blocksAvailable THEN acc
    ELSE IF i + 2 > Len(sortedBlocks) THEN acc      \* if (!prevBlock) break
    ELSE LET weight == LwmaWeight(blocksAvailable, i)
         IN  LwmaLoop(sortedBlocks, blocksAvailable, i + 1,
                      [sumWeightedSolvetimes |->
                           acc.sumWeightedSolvetimes + SolveTime(sortedBlocks, i) * weight,
                       sumWeights |-> acc.sumWeights + weight])

\* if (x > hi) x = hi; if (x < lo) x = lo;
ClampChange(x, lo, hi) ==
    LET capped == IF RatGT(x, hi) THEN hi ELSE x
    IN  IF RatLT(capped, lo) THEN lo ELSE capped

\* Mutant: the previous block is taken as the reference, as in LWMAv1.
WindowStartDifficulty_Prev(sortedBlocks, blocksAvailable) ==
    sortedBlocks[2].difficulty

\* const windowStartBlock = sortedBlocks[blocksAvailable];
\* windowStartBlock?.difficulty || currentDifficulty
WindowStartDifficulty(sortedBlocks, blocksAvailable) ==
    LET currentDifficulty == sortedBlocks[1].difficulty
    IN  IF blocksAvailable + 1 > Len(sortedBlocks) THEN currentDifficulty
        ELSE IF sortedBlocks[blocksAvailable + 1].difficulty = 0 THEN currentDifficulty
        ELSE sortedBlocks[blocksAvailable + 1].difficulty

\* The LWMAv2 branch
LwmaV2Change(sortedBlocks, blocksAvailable, acc) ==
    LET currentDifficulty == Num(sortedBlocks[1].difficulty)
        windowStartDifficulty == Num(WindowStartDifficulty(sortedBlocks, blocksAvailable))
        expectedWeightedSolvetimes == acc.sumWeights * BLOCK_SECONDS_TARGET
        lwmaRatio == RatDiv(Num(acc.sumWeightedSolvetimes), Num(expectedWeightedSolvetimes))
        nextDifficulty == RatDiv(windowStartDifficulty, lwmaRatio)
        difficultyChange ==
            RatMul(RatDiv(RatSub(nextDifficulty, currentDifficulty), currentDifficulty),
                   Num(100))
    IN  ClampChange(difficultyChange, Rat(-6667, 100), Num(200))

\* Mutant: the ratio is taken the wrong way round, average over target.
LwmaV1Change_Inverted(weightedAvgSolvetime) ==
    LET targetRatio == RatDiv(weightedAvgSolvetime, Num(BLOCK_SECONDS_TARGET))
        difficultyChange == RatMul(RatSub(targetRatio, Num(1)), Num(100))
    IN  ClampChange(difficultyChange, Num(-90), Num(100))

\* The LWMAv1 branch
LwmaV1Change(weightedAvgSolvetime) ==
    LET targetRatio == RatDiv(Num(BLOCK_SECONDS_TARGET), weightedAvgSolvetime)
        difficultyChange == RatMul(RatSub(targetRatio, Num(1)), Num(100))
    IN  ClampChange(difficultyChange, Num(-90), Num(100))

calculateLWMAEstimate(cache, net) ==
    LET sortedBlocks == SortByHeightDesc(cache)
        blocksAvailable == LwmaBlocksAvailable(sortedBlocks)
    IN  IF blocksAvailable < 2 THEN LwmaDefault
        ELSE LET useLWMAv2 == UseLWMAv2(sortedBlocks[1], net)
                 acc == LwmaLoop(sortedBlocks, blocksAvailable, 0,
                                 [sumWeightedSolvetimes |-> 0, sumWeights |-> 0])
             IN  IF acc.sumWeights = 0 THEN LwmaDefault
                 ELSE LET weightedAvgSolvetime ==
                              Rat(acc.sumWeightedSolvetimes, acc.sumWeights)
                      IN  [difficultyChange |->
                               IF useLWMAv2 /\ blocksAvailable >= 3
                               THEN LwmaV2Change(sortedBlocks, blocksAvailable, acc)
                               ELSE LwmaV1Change(weightedAvgSolvetime),
                           weightedAvgSolvetime |-> weightedAvgSolvetime]

----------------------------------------------------------------------------
(* calcDifficultyAdjustment and getDifficultyAdjustment *)

TESTNET_MAX_BLOCK_SECONDS == 1200

\* What getDifficultyAdjustment returns without chain data
Null == [null |-> TRUE]

\* blocksCache[blocksCache.length - 1] of an empty array
Undefined == [undefined |-> TRUE]

\* if (blocksCache.length >= 3) in the ASERT and LWMA variants
EnoughSamples(cache) == Len(cache) >= 3

\* The estimate the ASERT variant works with: [difficultyChange, seconds]
AsertEstimateOf(cache) ==
    IF EnoughSamples(cache)
    THEN LET estimate == calculateASERTEstimate(cache)
         IN  [difficultyChange |-> estimate.difficultyChange,
              seconds |-> estimate.avgSolveTime]
    ELSE [difficultyChange |-> Num(0), seconds |-> Num(BLOCK_SECONDS_TARGET)]

\* The estimate the LWMA variant works with
LwmaEstimateOf(cache, net) ==
    IF EnoughSamples(cache)
    THEN LET estimate == calculateLWMAEstimate(cache, net)
         IN  [difficultyChange |-> estimate.difficultyChange,
              seconds |-> estimate.weightedAvgSolvetime]
    ELSE [difficultyChange |-> Num(0), seconds |-> Num(BLOCK_SECONDS_TARGET)]

\* Mutant: the check timeDiff > 0 is left out.
TrailingAverage_Unchecked(cache) ==
    IF Len(cache) >= 2
    THEN LET windowSize == Min(Len(cache) - 1, 45)
             recentBlocks == SubSeq(cache, Len(cache) - windowSize, Len(cache))
             timeDiff == recentBlocks[Len(recentBlocks)].timestamp
                             - recentBlocks[1].timestamp
         IN  Rat(timeDiff, Len(recentBlocks) - 1)
    ELSE Num(BLOCK_SECONDS_TARGET)

\* The simple trailing average: the time between the first and the last of
\* the last windowSize + 1 elements of the array, as it is ordered, divided
\* by the number of intervals.
TrailingAverage(cache) ==
    IF Len(cache) >= 2
    THEN LET windowSize == Min(Len(cache) - 1, 45)
             recentBlocks == SubSeq(cache, Len(cache) - windowSize, Len(cache))
         IN  IF Len(recentBlocks) >= 2
             THEN LET firstBlock == recentBlocks[1]
                      lastBlock == recentBlocks[Len(recentBlocks)]
                      timeDiff == lastBlock.timestamp - firstBlock.timestamp
                      blockCount == Len(recentBlocks) - 1
                  IN  IF blockCount > 0 /\ timeDiff > 0
                      THEN Rat(timeDiff, blockCount)
                      ELSE Num(BLOCK_SECONDS_TARGET)
             ELSE Num(BLOCK_SECONDS_TARGET)
    ELSE Num(BLOCK_SECONDS_TARGET)

\* if (network === 'testnet' && secs > TESTNET_MAX_BLOCK_SECONDS) secs = ceiling
TestnetCeiling(net, secs) ==
    IF net = "testnet" /\ RatGT(secs, Num(TESTNET_MAX_BLOCK_SECONDS))
    THEN Num(TESTNET_MAX_BLOCK_SECONDS)
    ELSE secs

\* Mutant: the time since the last block is not capped at the ceiling.
TimeOffset_Uncapped(net, nowSeconds, latestBlockTimestamp, secs) ==
    IF net = "testnet"
    THEN LET secondsSinceLastBlock == nowSeconds - latestBlockTimestamp
         IN  IF RatGT(RatAdd(Num(secondsSinceLastBlock), secs),
                      Num(TESTNET_MAX_BLOCK_SECONDS))
             THEN -secondsSinceLastBlock * 1000
             ELSE 0
    ELSE 0

\* timeOffset, from the reference solve time after the ceiling
TimeOffset(net, nowSeconds, latestBlockTimestamp, secs) ==
    IF net = "testnet"
    THEN LET secondsSinceLastBlock == nowSeconds - latestBlockTimestamp
         IN  IF RatGT(RatAdd(Num(secondsSinceLastBlock), secs),
                      Num(TESTNET_MAX_BLOCK_SECONDS))
             THEN -Min(secondsSinceLastBlock, TESTNET_MAX_BLOCK_SECONDS) * 1000
             ELSE 0
    ELSE 0

\* Mutant: Math.round in place of Math.floor.
FloorMillis_Rounded(secs) == (2 * secs.n * 1000 + secs.d) \div (2 * secs.d)

\* Math.floor(secs * 1000)
FloorMillis(secs) == (secs.n * 1000) \div secs.d

\* Mutant: the current height is reported as the next retarget height.
NextRetargetHeight_Current(blockHeight) == blockHeight

\* nextRetargetHeight: blockHeight + 1
NextRetargetHeight(blockHeight) == blockHeight + 1

\* The return statement, common to the variants but for difficultyChange
\* and previousRetarget
Report(difficultyChange, previousRetarget, DATime, nowSeconds, blockHeight, timeAvg, timeOffset) ==
    [progressPercent |-> 100,
     difficultyChange |-> difficultyChange,
     estimatedRetargetDate |-> nowSeconds * 1000 + timeAvg,
     remainingBlocks |-> 1,
     remainingTime |-> timeAvg,
     previousRetarget |-> previousRetarget,
     previousTime |-> DATime,
     nextRetargetHeight |-> NextRetargetHeight(blockHeight),
     timeAvg |-> timeAvg,
     timeOffset |-> timeOffset,
     expectedBlocks |-> 1]

\* Mutant: the caller's previousRetarget is passed through, as in the simple
\* trailing average variant.
EstimatedPreviousRetarget_PassedThrough(difficultyChange, previousRetarget) ==
    previousRetarget

\* previousRetarget of the ASERT and LWMA reports: the fresh difficultyChange
EstimatedPreviousRetarget(difficultyChange, previousRetarget) == difficultyChange

\* The ASERT variant
calcDifficultyAdjustment(cache, DATime, nowSeconds, blockHeight, previousRetarget, net, latestBlockTimestamp) ==
    LET estimate == AsertEstimateOf(cache)
        avgSolveTimeSecs == TestnetCeiling(net, estimate.seconds)
        timeOffset == TimeOffset(net, nowSeconds, latestBlockTimestamp, avgSolveTimeSecs)
        timeAvg == FloorMillis(avgSolveTimeSecs)
    IN  Report(estimate.difficultyChange,
               EstimatedPreviousRetarget(estimate.difficultyChange, previousRetarget),
               DATime, nowSeconds, blockHeight, timeAvg, timeOffset)

\* The LWMA variant
calcDifficultyAdjustmentLWMA(cache, DATime, nowSeconds, blockHeight, previousRetarget, net, latestBlockTimestamp) ==
    LET estimate == LwmaEstimateOf(cache, net)
        weightedAvgSecs == TestnetCeiling(net, estimate.seconds)
        timeOffset == TimeOffset(net, nowSeconds, latestBlockTimestamp, weightedAvgSecs)
        timeAvg == FloorMillis(weightedAvgSecs)
    IN  Report(estimate.difficultyChange,
               EstimatedPreviousRetarget(estimate.difficultyChange, previousRetarget),
               DATime, nowSeconds, blockHeight, timeAvg, timeOffset)

\* The simple trailing average variant: difficultyChange and previousRetarget
\* are both the caller's previousRetarget.
calcDifficultyAdjustmentAverage(cache, DATime, nowSeconds, blockHeight, previousRetarget, net, latestBlockTimestamp) ==
    LET timeAvgSecs == TestnetCeiling(net, TrailingAverage(cache))
        timeOffset == TimeOffset(net, nowSeconds, latestBlockTimestamp, timeAvgSecs)
        timeAvg == FloorMillis(timeAvgSecs)
    IN  Report(previousRetarget, previousRetarget,
               DATime, nowSeconds, blockHeight, timeAvg, timeOffset)

Variants == {"asert", "lwma", "average"}

CalcOf(variant, cache, DATime, nowSeconds, blockHeight, previousRetarget, net, latestBlockTimestamp) ==
    IF variant = "asert"
    THEN calcDifficultyAdjustment(cache, DATime, nowSeconds, blockHeight,
                                  previousRetarget, net, latestBlockTimestamp)
    ELSE IF variant = "lwma"
    THEN calcDifficultyAdjustmentLWMA(cache, DATime, nowSeconds, blockHeight,
                                      previousRetarget, net, latestBlockTimestamp)
    ELSE calcDifficultyAdjustmentAverage(cache, DATime, nowSeconds, blockHeight,
                                         previousRetarget, net, latestBlockTimestamp)

\* Mutant: the index is one too low, blocksCache[blocksCache.length - 2].
LatestBlock_OneBefore(cache) == IF Len(cache) < 2 THEN Undefined ELSE cache[Len(cache) - 1]

\* const latestBlock = blocksCache[blocksCache.length - 1]
LatestBlock(cache) == IF Len(cache) = 0 THEN Undefined ELSE cache[Len(cache)]

\* Mutant: calcDifficultyAdjustment gets the array as it was before the
\* newest block came in.
getDifficultyAdjustment_StaleWindow(variant, cache, DATime, previousRetarget, blockHeight, nowMillis, net) ==
    LET latestBlock == LatestBlock(cache)
    IN  IF latestBlock = Undefined THEN Null
        ELSE LET nowSeconds == nowMillis \div 1000
             IN  CalcOf(variant, SubSeq(cache, 1, Len(cache) - 1), DATime, nowSeconds,
                        blockHeight, previousRetarget, net, latestBlock.timestamp)

\* getDifficultyAdjustment of the variant: cache is what blocks.getBlocks()
\* returns, to this function and to calcDifficultyAdjustment.
getDifficultyAdjustment(variant, cache, DATime, previousRetarget, blockHeight, nowMillis, net) ==
    LET latestBlock == LatestBlock(cache)
    IN  IF latestBlock = Undefined THEN Null
        ELSE LET nowSeconds == nowMillis \div 1000
             IN  CalcOf(variant, cache, DATime, nowSeconds, blockHeight,
                        previousRetarget, net, latestBlock.timestamp)

----------------------------------------------------------------------------
(* Inputs *)

\* Free block caches: up to four samples of consecutive heights around the
\* LWMAv2 activation heights, any timestamps (equal, out of order, far apart),
\* in ascending, descending or mixed order.
Times == {1000, 1150, 2000}

Diffs == {1, 2}

HeightBases == {196, 197, 1244296, 1244297, 1244298}

FreeLens == 0..4

\* Orders of a cache of length len: position j of the array holds the
\* sample number Order[j] of the chain (1 = oldest).
Ascending(len) == [j \in 1..len |-> j]

Descending(len) == [j \in 1..len |-> len + 1 - j]

Mixed(len) == [j \in 1..len |-> IF j % 2 = 1 THEN (j + 1) \div 2 ELSE len + 1 - j \div 2]

Orders(len) == {Ascending(len), Descending(len), Mixed(len)}

FreeCachesOfLen(len) ==
    { [j \in 1..len |-> [height |-> base + ord[j] - 1,
                          timestamp |-> ts[ord[j]],
                          difficulty |-> df[ord[j]]]]
      : base \in HeightBases, ord \in Orders(len),
        ts \in [1..len -> Times], df \in [1..len -> Diffs] }

RECURSIVE FreeCachesUpTo(_)
FreeCachesUpTo(len) ==
    IF len \notin FreeLens THEN {}
    ELSE FreeCachesOfLen(len) \cup FreeCachesUpTo(len - 1)

FreeCaches == FreeCachesUpTo(CHOOSE len \in FreeLens : \A k \in FreeLens : k <= len)

\* Chains as the tests build them: len samples in ascending order, the first
\* slowPairs intervals of 900 s and the others of step seconds.
MaxLen == 48

Steps == {1, 39, 100, 150, 180, 200, 300, 600, 3750}

SlowPairs == {0, 2, 5}

ChainBases == {100, 1246100}

BaseTime == 1700000000

ChainCache(len, base, slowPairs, step) ==
    [j \in 1..len |-> [height |-> base + j - 1,
                        timestamp |-> BaseTime + 900 * Min(j - 1, slowPairs)
                                              + step * Max(j - 1 - slowPairs, 0),
                        difficulty |-> 100 + (j % 3)]]

ChainCaches ==
    { ChainCache(len, base, slowPairs, step)
      : len \in 0..MaxLen, base \in ChainBases, slowPairs \in SlowPairs, step \in Steps }

\* The chains of up to ShortLen samples, and those of MaxLen samples
ShortLen == 8

ShortChains ==
    { ChainCache(len, base, slowPairs, step)
      : len \in (0..ShortLen) \cup {MaxLen}, base \in ChainBases,
        slowPairs \in SlowPairs, step \in Steps }

\* Block caches of the report calls: up to four samples from height 197 on,
\* so that the newest one is below or at the testnet activation height, with
\* close, equal and far-apart timestamps, in ascending order or, up to three
\* samples, in mixed order.
ReportTimes == {1000, 1150, 4000}

ReportCaches ==
    UNION {
        { [j \in 1..len |-> [height |-> 197 + ord[j] - 1,
                              timestamp |-> ts[ord[j]],
                              difficulty |-> 1 + (ord[j] % 2)]]
          : ord \in {Ascending(len)} \cup (IF len < 4 THEN {Mixed(len)} ELSE {}),
            ts \in [1..len -> ReportTimes] }
        : len \in 0..4 }

\* The chain context of a report call
DATimes == {0, 1000}

BlockHeights == {0, 200}

PreviousRetargets == {Num(0), Rat(-5, 2)}

ReportNetworks == {"mainnet", "testnet"}

\* nowSeconds: before, shortly after and long after the blocks
NowSeconds == {900, 2100, 5300}

\* new Date().getTime(), in milliseconds
NowMillis == {900000, 2100999, 5300500}

LatestTimestamps == {1000}

\* The block store: at most MaxBlocks blocks are kept, with these timestamps
MaxBlocks == 4

SnapshotTimes == {1150, 4000}

\* On-target chains: OnTargetBlocks samples exactly 150 s apart, in any of
\* the three orders, around the activation heights, with the difficulty of
\* the oldest sample, of the newest sample and of the samples between them
\* chosen freely.
OnTargetBlocks == 10

OnTargetBases == {100, 191, 1244290, 1244291, 1246100}

OnTargetDiffs == {100, 150, 400}

OnTargetCaches ==
    { [j \in 1..OnTargetBlocks |->
          [height |-> base + ord[j] - 1,
           timestamp |-> BaseTime + BLOCK_SECONDS_TARGET * (ord[j] - 1),
           difficulty |-> IF ord[j] = 1 THEN df[1]
                          ELSE IF ord[j] = OnTargetBlocks THEN df[3] ELSE df[2]]]
      : base \in OnTargetBases, ord \in Orders(OnTargetBlocks),
        df \in [1..3 -> OnTargetDiffs] }

\* Caches of pairwise distinct heights: up to OrderLen samples, consecutive
\* or every second height around the activation heights, each sample with
\* its own difficulty, in any of the three orders; and the chains of MaxLen
\* samples, which are longer than both windows.
OrderLen == 4

OrderTimes == {1000, 1150}

OrderBases == {194, 1244294}

OrderGaps == {1, 2}

OrderCaches ==
    UNION {
        { [j \in 1..len |-> [height |-> base + gap * (ord[j] - 1),
                              timestamp |-> ts[ord[j]],
                              difficulty |-> 100 + 7 * ord[j]]]
          : base \in OrderBases, gap \in OrderGaps, ord \in Orders(len),
            ts \in [1..len -> OrderTimes] }
        : len \in 0..OrderLen }
    \cup { ChainCache(MaxLen, base, slowPairs, step)
           : base \in ChainBases, slowPairs \in SlowPairs, step \in Steps }

----------------------------------------------------------------------------
(* The state machine *)

Networks == {"mainnet", "testnet", "signet"}

NoResult == [difficultyChange |-> Num(0)]

NoArgs == [fn |-> "none", variant |-> "none"]

Init ==
    /\ blocksCache \in FreeCaches \cup ChainCaches
    /\ op = "none"
    /\ network = ""
    /\ result = NoResult
    /\ args = NoArgs
    /\ report = Null

CallASERT ==
    /\ op' = "asert"
    /\ network' = ""
    /\ result' = calculateASERTEstimate(blocksCache)
    /\ blocksCache' = CallerArray(blocksCache)
    /\ UNCHANGED <<args, report>>

CallLWMA ==
    /\ \E net \in Networks :
        /\ op' = "lwma"
        /\ network' = net
        /\ result' = calculateLWMAEstimate(blocksCache, net)
    /\ blocksCache' = CallerArray(blocksCache)
    /\ UNCHANGED <<args, report>>

Next == CallASERT \/ CallLWMA

Spec == Init /\ [][Next]_vars

\* The estimators on the free caches and on short chains
InitShort ==
    /\ blocksCache \in FreeCaches \cup ShortChains
    /\ op = "none"
    /\ network = ""
    /\ result = NoResult
    /\ args = NoArgs
    /\ report = Null

SpecShort == InitShort /\ [][Next]_vars

\* The estimators on the on-target chains
InitOnTarget ==
    /\ blocksCache \in OnTargetCaches
    /\ op = "none"
    /\ network = ""
    /\ result = NoResult
    /\ args = NoArgs
    /\ report = Null

SpecOnTarget == InitOnTarget /\ [][Next]_vars

\* The estimators on the caches of pairwise distinct heights
InitOrder ==
    /\ blocksCache \in OrderCaches
    /\ op = "none"
    /\ network = ""
    /\ result = NoResult
    /\ args = NoArgs
    /\ report = Null

SpecOrder == InitOrder /\ [][Next]_vars

\* The report calls: the chain context is drawn at the start and the calls
\* apply calcDifficultyAdjustment and getDifficultyAdjustment to it.
InitReport ==
    /\ blocksCache \in ReportCaches
    /\ op = "none"
    /\ network = ""
    /\ result = NoResult
    /\ args \in [fn : {"none"}, variant : {"none"}, DATime : DATimes,
                  nowSeconds : NowSeconds, blockHeight : BlockHeights,
                  previousRetarget : PreviousRetargets, network : ReportNetworks,
                  latestBlockTimestamp : LatestTimestamps, snapshot : {<<>>}]
    /\ report = Null

\* A direct call of calcDifficultyAdjustment of one of the variants
CallCalc ==
    /\ \E variant \in Variants :
        /\ args' = [args EXCEPT !.fn = "calc", !.variant = variant,
                                !.snapshot = blocksCache]
        /\ report' = CalcOf(variant, blocksCache, args.DATime, args.nowSeconds,
                            args.blockHeight, args.previousRetarget, args.network,
                            args.latestBlockTimestamp)
    /\ UNCHANGED <<blocksCache, op, network, result>>

\* A request: DATime, previousRetarget and blockHeight come from the block
\* store and the network from the configuration; the clock is read, and
\* args keeps what is passed on to calcDifficultyAdjustment and, as
\* snapshot, the array blocks.getBlocks() returned.
CallGet ==
    /\ \E variant \in Variants, nowMillis \in NowMillis :
        /\ args' = [args EXCEPT !.fn = "get", !.variant = variant,
                                !.snapshot = blocksCache,
                                !.nowSeconds = nowMillis \div 1000,
                                !.latestBlockTimestamp =
                                    IF LatestBlock(blocksCache) = Undefined THEN @
                                    ELSE LatestBlock(blocksCache).timestamp]
        /\ report' = getDifficultyAdjustment(variant, blocksCache, args.DATime,
                                             args.previousRetarget, args.blockHeight,
                                             nowMillis, args.network)
    /\ UNCHANGED <<blocksCache, op, network, result>>

NextReport == CallCalc \/ CallGet

SpecReport == InitReport /\ [][NextReport]_vars

\* Requests while the block store changes.  The request handler is
\* synchronous, so a change of the cache falls between two requests, never
\* inside one.
InitSnapshot ==
    /\ blocksCache = <<>>
    /\ op = "none"
    /\ network = ""
    /\ result = NoResult
    /\ args \in [fn : {"none"}, variant : {"none"}, DATime : {0},
                  nowSeconds : {900}, blockHeight : {0},
                  previousRetarget : {Num(0)}, network : ReportNetworks,
                  latestBlockTimestamp : {1000}, snapshot : {<<>>}]
    /\ report = Null

\* The block store takes a new block on top of the chain.
NewBlock ==
    /\ Len(blocksCache) < MaxBlocks
    /\ \E timestamp \in SnapshotTimes :
        blocksCache' = Append(blocksCache,
                              [height |-> 197 + Len(blocksCache),
                               timestamp |-> timestamp,
                               difficulty |-> 1 + (Len(blocksCache) % 2)])
    /\ UNCHANGED <<op, network, result, args, report>>

\* A reorganisation replaces the newest block by another one of its height.
Reorg ==
    /\ Len(blocksCache) > 0
    /\ \E timestamp \in SnapshotTimes \ {blocksCache[Len(blocksCache)].timestamp} :
        blocksCache' = [blocksCache EXCEPT ![Len(blocksCache)].timestamp = timestamp]
    /\ UNCHANGED <<op, network, result, args, report>>

NextSnapshot == CallGet \/ NewBlock \/ Reorg

SpecSnapshot == InitSnapshot /\ [][NextSnapshot]_vars

----------------------------------------------------------------------------
(* Vocabulary of the properties.  These definitions restate the window, the *)
(* solve times and the formulas from the array itself, without the sort and *)
(* the loops of the estimators.                                             *)

\* The number of samples of cache that are higher than its j-th sample
RankOf(cache, j) ==
    Cardinality({i \in 1..Len(cache) : cache[i].height > cache[j].height})

RECURSIVE Ranks(_, _)
Ranks(cache, j) ==
    IF j > Len(cache) THEN <<>> ELSE <<RankOf(cache, j)>> \o Ranks(cache, j + 1)

\* The samples of cache by descending height; heights are pairwise distinct.
NewestFirst(cache) ==
    LET r == Ranks(cache, 1)
    IN  [k \in 1..Len(cache) |-> cache[CHOOSE j \in 1..Len(cache) : r[j] = k - 1]]

\* min(len - 1, 45), the number of adjacent pairs of the window
PairsOf(cache) == Min(Len(cache) - 1, 45)

\* The raw solve times of the window, newest pair first
RawSolveTimes(cache) ==
    LET w == NewestFirst(cache)
    IN  [k \in 1..PairsOf(cache) |-> w[k].timestamp - w[k + 1].timestamp]

\* The same, clamped into [1, 900]
ClampedSolveTimes(cache) ==
    LET raw == RawSolveTimes(cache)
    IN  [k \in 1..PairsOf(cache) |-> Max(1, Min(900, raw[k]))]

\* s[1] + ... + s[k]
RECURSIVE SumTo(_, _)
SumTo(s, k) == IF k = 0 THEN 0 ELSE s[k] + SumTo(s, k - 1)

\* s[1] * top + s[2] * (top - 1) + ... + s[k] * (top - k + 1)
RECURSIVE WeightedSumTo(_, _, _)
WeightedSumTo(s, k, top) ==
    IF k = 0 THEN 0 ELSE s[k] * (top - k + 1) + WeightedSumTo(s, k - 1, top)

\* The unweighted mean of the clamped solve times of the window
MeanSolveTime(cache) ==
    Rat(SumTo(ClampedSolveTimes(cache), PairsOf(cache)), PairsOf(cache))

\* (2^((150 - avg) / 3600) - 1) * 100
AsertFormula(avg) ==
    RatMul(RatSub(Pow2(RatDiv(RatSub(Num(150), avg), Num(3600))), Num(1)), Num(100))

\* The reference solve time of the last result
RefSolveTime ==
    IF op = "asert" THEN result.avgSolveTime ELSE result.weightedAvgSolvetime

Called == op \in {"asert", "lwma"}

\* Every pair of consecutive blocks of the window is step seconds apart.
Spaced(cache, step) ==
    \A k \in 1..PairsOf(cache) : RawSolveTimes(cache)[k] = step

\* The k samples of greatest height, in the order the array has them
NewestSamples(cache, k) ==
    LET Keep(b) == Cardinality({i \in 1..Len(cache) : cache[i].height > b.height}) < k
    IN  SelectSeq(cache, Keep)

\* sum(solveTime * weight) with the weights pairs..1 from the newest pair on
WeightedSolveTimeSum(cache) ==
    WeightedSumTo(ClampedSolveTimes(cache), PairsOf(cache), PairsOf(cache))

\* sum(weight)
WeightSum(cache) ==
    SumTo([k \in 1..PairsOf(cache) |-> PairsOf(cache) - k + 1], PairsOf(cache))

WeightedMean(cache) == Rat(WeightedSolveTimeSum(cache), WeightSum(cache))

Clamped(x, lo, hi) == IF RatLT(x, lo) THEN lo ELSE IF RatLT(hi, x) THEN hi ELSE x

\* (T / weightedAvg - 1) * 100 clamped to [-90, 100]
V1Formula(cache) ==
    Clamped(RatMul(RatSub(RatDiv(Num(150), WeightedMean(cache)), Num(1)), Num(100)),
            Num(-90), Num(100))

\* (windowStartDifficulty / ratio - currentDifficulty) / currentDifficulty * 100
\* with ratio = weightedSum / (sumWeights * T), clamped to [-66.67, 200]
V2Formula(cache) ==
    LET w == NewestFirst(cache)
        windowStartDifficulty == Num(w[PairsOf(cache) + 1].difficulty)
        currentDifficulty == Num(w[1].difficulty)
        ratio == Rat(WeightedSolveTimeSum(cache), WeightSum(cache) * 150)
    IN  Clamped(RatMul(RatDiv(RatSub(RatDiv(windowStartDifficulty, ratio),
                                     currentDifficulty),
                              currentDifficulty),
                       Num(100)),
                Rat(-6667, 100), Num(200))

\* The branch calculateLWMAEstimate takes on the cache
BranchV2 ==
    LET sortedBlocks == SortByHeightDesc(blocksCache)
    IN  UseLWMAv2(sortedBlocks[1], network) /\ LwmaBlocksAvailable(sortedBlocks) >= 3

----------------------------------------------------------------------------
(* Properties *)

\* C1: with fewer than 3 samples (min(len - 1, 45) < 2) both estimators
\* return difficultyChange = 0 and the reference solve time T = 150, whatever
\* the samples hold.
C1_InsufficientData ==
    (Called /\ PairsOf(blocksCache) < 2)
        => /\ result.difficultyChange = Num(0)
           /\ RefSolveTime = Num(150)

C1_Witness ==
    /\ op = "lwma"
    /\ Len(blocksCache) = 2
    /\ blocksCache[1].timestamp - blocksCache[2].timestamp \notin {0, 150, -150}
    /\ result.difficultyChange = Num(0)
    /\ result.weightedAvgSolvetime = Num(150)

\* C2: every solve time the estimators use lies in [1, 900], also for equal,
\* out-of-order and far-apart timestamps, and so does the returned average
\* whenever at least 3 samples are given.
C2_SolveTimesClamped ==
    (Called /\ Len(blocksCache) >= 3)
        => LET sortedBlocks == SortByHeightDesc(blocksCache)
           IN  /\ \A i \in 0..(PairsOf(blocksCache) - 1) :
                      /\ 1 <= SolveTime(sortedBlocks, i)
                      /\ SolveTime(sortedBlocks, i) <= 900
               /\ RatLE(Num(1), RefSolveTime)
               /\ RatLE(RefSolveTime, Num(900))

C2_Witness ==
    /\ op = "asert"
    /\ Len(blocksCache) >= 3
    /\ \E k \in 1..PairsOf(blocksCache) : RawSolveTimes(blocksCache)[k] < 0
    /\ \E k \in 1..PairsOf(blocksCache) : RawSolveTimes(blocksCache)[k] > 900
    /\ RatLE(Num(1), result.avgSolveTime)
    /\ RatLE(result.avgSolveTime, Num(900))

\* C3: with at least 3 samples, calculateASERTEstimate returns the unweighted
\* mean of the clamped solve times of exactly the min(len - 1, 45) newest
\* adjacent pairs, and difficultyChange = (2^((150 - avg) / 3600) - 1) * 100
\* of that mean, with nothing else applied.
C3_AsertMeanAndFormula ==
    (op = "asert" /\ Len(blocksCache) >= 3)
        => /\ result.avgSolveTime = MeanSolveTime(blocksCache)
           /\ result.difficultyChange = AsertFormula(MeanSolveTime(blocksCache))

C3_Witness ==
    /\ op = "asert"
    /\ Len(blocksCache) > 46
    /\ \E k \in 1..(Len(blocksCache) - 1) :
           LET w == NewestFirst(blocksCache)
           IN  w[k].timestamp - w[k + 1].timestamp # w[1].timestamp - w[2].timestamp
    /\ result.avgSolveTime = Num(180)
    /\ result.difficultyChange = AsertFormula(Num(180))

\* C4: the ASERT estimate is bounded by the solve-time clamp alone: the
\* exponent lies in [(150 - 900) / 3600, (150 - 1) / 3600], difficultyChange
\* in [(2^(-750/3600) - 1) * 100, (2^(149/3600) - 1) * 100], about -13.45 and
\* +2.91, and both ends are returned as they are, not cut to a tighter limit.
C4_AsertBounds ==
    LET low  == AsertFormula(Num(900))
        high == AsertFormula(Num(1))
    IN  (op = "asert" /\ Len(blocksCache) >= 3)
            => LET exponent == RatDiv(RatSub(Num(150), result.avgSolveTime), Num(3600))
               IN  /\ RatLE(Rat(150 - 900, 3600), exponent)
                   /\ RatLE(exponent, Rat(150 - 1, 3600))
                   /\ RatLE(low, result.difficultyChange)
                   /\ RatLE(result.difficultyChange, high)
                   /\ RatLT(Rat(-1346, 100), low) /\ RatLT(low, Rat(-1344, 100))
                   /\ RatLT(Rat(290, 100), high) /\ RatLT(high, Rat(292, 100))
                   /\ result.difficultyChange = AsertFormula(result.avgSolveTime)
                   /\ (result.avgSolveTime = Num(900) => result.difficultyChange = low)
                   /\ (result.avgSolveTime = Num(1) => result.difficultyChange = high)

C4_Witness ==
    /\ op = "asert"
    /\ Len(blocksCache) >= 3
    /\ result.avgSolveTime = Num(900)
    /\ result.difficultyChange = AsertFormula(Num(900))
    /\ RatLT(result.difficultyChange, Num(-13))

\* C5: the sign of the ASERT estimate follows the speed of the chain:
\* positive when avgSolveTime < 150, negative when avgSolveTime > 150, zero
\* when avgSolveTime = 150.
C5_AsertSign ==
    (op = "asert" /\ Len(blocksCache) >= 3)
        => /\ RatLT(result.avgSolveTime, Num(150)) => RatGT(result.difficultyChange, Num(0))
           /\ RatGT(result.avgSolveTime, Num(150)) => RatLT(result.difficultyChange, Num(0))
           /\ result.avgSolveTime = Num(150) => result.difficultyChange = Num(0)

C5_Witness ==
    /\ op = "asert"
    /\ Len(blocksCache) >= 3
    /\ RatGT(result.avgSolveTime, Num(150))
    /\ RatLT(result.avgSolveTime, Num(200))
    /\ RatLT(result.difficultyChange, Num(0))

\* C6 as stated: with halflife 3600 and T = 150, blocks spaced exactly 3750 s
\* apart give an exponent of -1 and an ASERT estimate of about -50 percent.
C6_HalflifeAsStated ==
    (op = "asert" /\ Len(blocksCache) >= 3 /\ Spaced(blocksCache, 3750))
        => /\ RatDiv(RatSub(Num(150), result.avgSolveTime), Num(3600)) = Num(-1)
           /\ RatLT(Num(-51), result.difficultyChange)
           /\ RatLT(result.difficultyChange, Num(-49))

\* C6 amended: blocks spaced exactly 3750 s apart have every solve time
\* clamped to 900, so avgSolveTime = 900, the exponent is (150 - 900) / 3600
\* and the ASERT estimate is about -13.45 percent.
C6_HalflifeClamped ==
    (op = "asert" /\ Len(blocksCache) >= 3 /\ Spaced(blocksCache, 3750))
        => /\ result.avgSolveTime = Num(900)
           /\ RatDiv(RatSub(Num(150), result.avgSolveTime), Num(3600)) = Rat(-750, 3600)
           /\ RatLT(Rat(-1346, 100), result.difficultyChange)
           /\ RatLT(result.difficultyChange, Rat(-1344, 100))

C6_Witness ==
    /\ op = "asert"
    /\ Len(blocksCache) = 10
    /\ Spaced(blocksCache, 3750)
    /\ result.avgSolveTime = Num(900)
    /\ RatLT(Num(-14), result.difficultyChange)

\* C7: with more than 45 + 1 samples each estimator returns what it returns
\* for the 46 samples of greatest height alone; older samples have no
\* influence.
C7_WindowTruncation ==
    /\ (op = "asert" /\ Len(blocksCache) > 46)
           => result = calculateASERTEstimate(NewestSamples(blocksCache, 46))
    /\ (op = "lwma" /\ Len(blocksCache) > 46)
           => result = calculateLWMAEstimate(NewestSamples(blocksCache, 46), network)

C7_Witness ==
    /\ op = "asert"
    /\ Len(blocksCache) = 48
    /\ Len(NewestSamples(blocksCache, 46)) = 46
    /\ blocksCache[2].timestamp - blocksCache[1].timestamp = 900
    /\ Spaced(blocksCache, 150)
    /\ result.avgSolveTime = Num(150)
    /\ result = calculateASERTEstimate(NewestSamples(blocksCache, 46))

\* C8: in the version 1 branch of calculateLWMAEstimate the weights
\* blocksAvailable..1 go to the clamped solve times from newest to oldest,
\* weightedAvg = sum(solveTime * weight) / sum(weight) and difficultyChange =
\* (T / weightedAvg - 1) * 100 clamped to [-90, 100], hence within [-90, 100].
C8_LwmaV1 ==
    (op = "lwma" /\ PairsOf(blocksCache) >= 2 /\ ~BranchV2)
        => /\ result.weightedAvgSolvetime = WeightedMean(blocksCache)
           /\ result.difficultyChange = V1Formula(blocksCache)
           /\ RatLE(Num(-90), result.difficultyChange)
           /\ RatLE(result.difficultyChange, Num(100))

C8_Witness ==
    /\ op = "lwma"
    /\ PairsOf(blocksCache) >= 3
    /\ ~BranchV2
    /\ ClampedSolveTimes(blocksCache)[1] # ClampedSolveTimes(blocksCache)[3]
    /\ result.weightedAvgSolvetime = WeightedMean(blocksCache)
    /\ RatLT(Num(-90), result.difficultyChange)
    /\ RatLT(result.difficultyChange, Num(0))

\* C9: in the version 2 branch difficultyChange = (windowStartDifficulty /
\* ratio - currentDifficulty) / currentDifficulty * 100 with ratio =
\* weightedSum / (sumWeights * T), windowStartDifficulty being the difficulty
\* of the sample at index blocksAvailable of the descending window and
\* currentDifficulty that of the newest sample; the value is clamped and so
\* always within [-66.67, 200].
C9_LwmaV2 ==
    (op = "lwma" /\ PairsOf(blocksCache) >= 2 /\ BranchV2)
        => /\ result.difficultyChange = V2Formula(blocksCache)
           /\ RatLE(Rat(-6667, 100), result.difficultyChange)
           /\ RatLE(result.difficultyChange, Num(200))

C9_Witness ==
    /\ op = "lwma"
    /\ PairsOf(blocksCache) >= 3
    /\ BranchV2
    /\ LET w == NewestFirst(blocksCache)
       IN  /\ w[PairsOf(blocksCache) + 1].difficulty # w[1].difficulty
           /\ w[2].difficulty # w[PairsOf(blocksCache) + 1].difficulty
    /\ RatLT(Rat(-6667, 100), result.difficultyChange)
    /\ RatLT(result.difficultyChange, Num(200))
    /\ result.difficultyChange = V2Formula(blocksCache)

\* C10: the version 2 formula is used exactly when the height of the newest
\* sample is >= the activation height of the network (200 on 'testnet',
\* 1244300 on any other network) and blocksAvailable >= 3; otherwise the
\* version 1 formula with its clamp [-90, 100] is used.
C10_VersionSelection ==
    (op = "lwma" /\ PairsOf(blocksCache) >= 2)
        => LET currentHeight == NewestFirst(blocksCache)[1].height
               activationHeight == IF network = "testnet" THEN 200 ELSE 1244300
           IN  result.difficultyChange =
                   IF currentHeight >= activationHeight /\ PairsOf(blocksCache) >= 3
                   THEN V2Formula(blocksCache)
                   ELSE V1Formula(blocksCache)

C10_Witness ==
    /\ op = "lwma"
    /\ network = "testnet"
    /\ PairsOf(blocksCache) = 3
    /\ NewestFirst(blocksCache)[1].height = 200
    /\ V1Formula(blocksCache) # V2Formula(blocksCache)
    /\ result.difficultyChange = V2Formula(blocksCache)

----------------------------------------------------------------------------
(* Monotonicity *)

\* The estimator of the last call, applied to another cache
Estimate(cache) ==
    IF op = "asert" THEN calculateASERTEstimate(cache)
    ELSE calculateLWMAEstimate(cache, network)

\* The reference solve time of an estimate
RefOf(estimate) ==
    IF op = "asert" THEN estimate.avgSolveTime ELSE estimate.weightedAvgSolvetime

\* The lowest height of a non-empty cache
LowestHeight(cache) ==
    CHOOSE h \in {cache[j].height : j \in 1..Len(cache)} :
        \A j \in 1..Len(cache) : h <= cache[j].height

\* blocks with every block delta seconds later per height above low
RECURSIVE Delayed(_, _, _)
Delayed(blocks, delta, low) ==
    IF blocks = <<>> THEN <<>>
    ELSE <<[Head(blocks) EXCEPT !.timestamp = @ + delta * (Head(blocks).height - low)]>>
             \o Delayed(Tail(blocks), delta, low)

\* cache with every block delta seconds later per height above the lowest:
\* heights being consecutive, every raw solve time grows by delta, and
\* heights and difficulties stay as they are.
Slower(cache, delta) ==
    IF cache = <<>> THEN <<>> ELSE Delayed(cache, delta, LowestHeight(cache))

SlowDowns == {1, 300}

\* Every solve time of the window, as the estimators use it (clamped), is
\* greater in slow than in cache.
EverySolveTimeIncreased(cache, slow) ==
    LET before == SortByHeightDesc(cache)
        after == SortByHeightDesc(slow)
    IN  \A i \in 0..(PairsOf(cache) - 1) : SolveTime(after, i) > SolveTime(before, i)

\* The bounds of the clamp of the branch calculateLWMAEstimate takes
ClampBounds == IF BranchV2 THEN {Rat(-6667, 100), Num(200)} ELSE {Num(-90), Num(100)}

\* C11 as stated: increasing every solve time of the window strictly
\* increases the returned average and strictly decreases the returned
\* difficultyChange, in both estimators.
C11_MonotoneAsStated ==
    (Called /\ Len(blocksCache) >= 3)
        => \A delta \in SlowDowns :
               LET slow == Slower(blocksCache, delta)
               IN  EverySolveTimeIncreased(blocksCache, slow)
                       => /\ RatLT(RefOf(result), RefOf(Estimate(slow)))
                          /\ RatLT(Estimate(slow).difficultyChange, result.difficultyChange)

\* C11 amended: increasing every solve time of the window strictly increases
\* the returned average and never increases difficultyChange; it strictly
\* decreases difficultyChange in ASERT, and in LWMA unless both estimates sit
\* on the same bound of the clamp of the branch ([-90, 100] or [-66.67, 200]).
C11_MonotoneUpToClamp ==
    (Called /\ Len(blocksCache) >= 3)
        => \A delta \in SlowDowns :
               LET slow == Slower(blocksCache, delta)
                   after == Estimate(slow)
               IN  EverySolveTimeIncreased(blocksCache, slow)
                       => /\ RatLT(RefOf(result), RefOf(after))
                          /\ RatLE(after.difficultyChange, result.difficultyChange)
                          /\ after.difficultyChange = result.difficultyChange
                                 => /\ op = "lwma"
                                    /\ result.difficultyChange \in ClampBounds

C11_Witness ==
    /\ op = "lwma"
    /\ Len(blocksCache) >= 4
    /\ ~BranchV2
    /\ LET slow == Slower(blocksCache, 1)
           after == Estimate(slow)
       IN  /\ EverySolveTimeIncreased(blocksCache, slow)
           /\ RatLT(RefOf(result), RefOf(after))
           /\ RatLT(after.difficultyChange, result.difficultyChange)
    /\ RatLT(result.difficultyChange, Num(100))

----------------------------------------------------------------------------
(* The on-target example *)

\* 10 blocks at exactly 150 s spacing
OnTarget(cache) == Len(cache) = 10 /\ Spaced(cache, 150)

\* C12 as stated: with 10 blocks at exactly 150 s spacing every variant
\* (ASERT, LWMA v1, LWMA v2) returns difficultyChange = 0 and the reference
\* solve time 150.
C12_OnTargetAsStated ==
    (Called /\ OnTarget(blocksCache))
        => /\ result.difficultyChange = Num(0)
           /\ RefSolveTime = Num(150)

\* C12 amended: with 10 blocks at exactly 150 s spacing every variant returns
\* the reference solve time 150; ASERT and LWMA v1 return difficultyChange =
\* 0, and LWMA v2 returns (windowStartDifficulty - currentDifficulty) /
\* currentDifficulty * 100 clamped to [-66.67, 200], which is 0 exactly when
\* the oldest sample of the window has the difficulty of the newest one.
C12_OnTarget ==
    (Called /\ OnTarget(blocksCache))
        => LET w == NewestFirst(blocksCache)
               windowStartDifficulty == Num(w[PairsOf(blocksCache) + 1].difficulty)
               currentDifficulty == Num(w[1].difficulty)
           IN  /\ RefSolveTime = Num(150)
               /\ (op = "asert" \/ ~BranchV2) => result.difficultyChange = Num(0)
               /\ (op = "lwma" /\ BranchV2)
                      => /\ result.difficultyChange =
                                Clamped(RatMul(RatDiv(RatSub(windowStartDifficulty,
                                                             currentDifficulty),
                                                      currentDifficulty),
                                               Num(100)),
                                        Rat(-6667, 100), Num(200))
                         /\ (result.difficultyChange = Num(0))
                                <=> (windowStartDifficulty = currentDifficulty)

C12_Witness ==
    /\ op = "lwma"
    /\ OnTarget(blocksCache)
    /\ BranchV2
    /\ LET w == NewestFirst(blocksCache)
       IN  /\ w[10].difficulty = w[1].difficulty
           /\ w[5].difficulty # w[1].difficulty
    /\ result.difficultyChange = Num(0)
    /\ result.weightedAvgSolvetime = Num(150)

----------------------------------------------------------------------------
(* Divisions *)

\* C19: for any number of samples, any timestamps, any heights and positive
\* difficulties both estimators return finite numbers; every divisor (count,
\* sumWeights, the weighted average, the version 2 ratio with its expected
\* weighted sum, and currentDifficulty) is non-zero where it is divided by,
\* and the neutral default is returned when a count or weight sum is not
\* positive.
C19_NoDivisionByZero ==
    (Called /\ \A j \in 1..Len(blocksCache) : blocksCache[j].difficulty > 0)
        => LET sortedBlocks == SortByHeightDesc(blocksCache)
               blocksAvailable == Min(Len(sortedBlocks) - 1, 45)
               counted == AsertLoop(sortedBlocks, blocksAvailable, 0,
                                    [totalSolveTime |-> 0, count |-> 0])
               weighted == LwmaLoop(sortedBlocks, blocksAvailable, 0,
                                    [sumWeightedSolvetimes |-> 0, sumWeights |-> 0])
           IN  /\ IsFinite(result.difficultyChange)
               /\ IsFinite(RefSolveTime)
               /\ (op = "asert" /\ blocksAvailable >= 2)
                      => \/ counted.count > 0
                         \/ counted.count = 0 /\ result = AsertDefault
               /\ (op = "lwma" /\ blocksAvailable >= 2)
                      => \/ /\ weighted.sumWeights > 0
                            /\ weighted.sumWeightedSolvetimes # 0
                            /\ weighted.sumWeights * 150 # 0
                            /\ BranchV2 => sortedBlocks[1].difficulty # 0
                         \/ weighted.sumWeights = 0 /\ result = LwmaDefault

C19_Witness ==
    /\ op = "lwma"
    /\ PairsOf(blocksCache) >= 3
    /\ BranchV2
    /\ \A k \in 1..PairsOf(blocksCache) : RawSolveTimes(blocksCache)[k] <= 0
    /\ IsFinite(result.difficultyChange)
    /\ result.weightedAvgSolvetime = Num(1)

----------------------------------------------------------------------------
(* The report *)

\* A report call has been made and has returned a report.
Reported == args.fn # "none" /\ report # Null

\* The simple trailing average restated: the time from the sample
\* min(len - 1, 45) places before the last one of the array to the last one,
\* per interval; 150 with fewer than 2 samples or a time that is not positive.
TrailingMean(cache) ==
    IF Len(cache) < 2 THEN Num(150)
    ELSE LET elapsed == cache[Len(cache)].timestamp
                            - cache[Len(cache) - PairsOf(cache)].timestamp
         IN  IF elapsed > 0 THEN Rat(elapsed, PairsOf(cache)) ELSE Num(150)

\* The reference solve time the variant of the last call gets from its
\* estimator, before the testnet ceiling
EstimatorSeconds ==
    IF args.variant = "average" THEN TrailingMean(blocksCache)
    ELSE IF Len(blocksCache) < 3 THEN Num(150)
    ELSE IF args.variant = "asert" THEN MeanSolveTime(blocksCache)
    ELSE WeightedMean(blocksCache)

\* The same after the ceiling of 1200 s, which holds on testnet only
ReferenceSeconds ==
    IF args.network = "testnet" /\ RatLT(Num(1200), EstimatorSeconds)
    THEN Num(1200)
    ELSE EstimatorSeconds

\* n = floor(x * 1000)
IsFloorMillis(n, x) ==
    /\ RatLE(Num(n), RatMul(x, Num(1000)))
    /\ RatLT(RatMul(x, Num(1000)), Num(n + 1))

\* C13: on testnet the reference solve time is clamped to at most 1200 s;
\* then, with secondsSinceLastBlock = nowSeconds - latestBlockTimestamp, if
\* secondsSinceLastBlock + referenceSolveTime > 1200 the timeOffset is
\* strictly negative and equals -min(secondsSinceLastBlock, 1200) * 1000,
\* otherwise it is 0; on any other network timeOffset is 0 and the reference
\* solve time is not clamped by the ceiling.
C13_TestnetTimeOffset ==
    Reported
        => LET secondsSinceLastBlock == args.nowSeconds - args.latestBlockTimestamp
           IN  IF args.network = "testnet"
               THEN /\ RatLE(ReferenceSeconds, Num(1200))
                    /\ IsFloorMillis(report.timeAvg, ReferenceSeconds)
                    /\ report.timeAvg <= 1200000
                    /\ IF RatLT(Num(1200 - secondsSinceLastBlock), ReferenceSeconds)
                       THEN /\ report.timeOffset < 0
                            /\ report.timeOffset
                                   = -(Min(secondsSinceLastBlock, 1200) * 1000)
                       ELSE report.timeOffset = 0
               ELSE /\ report.timeOffset = 0
                    /\ IsFloorMillis(report.timeAvg, EstimatorSeconds)

C13_Witness ==
    /\ Reported
    /\ args.network = "testnet"
    /\ args.variant = "average"
    /\ RatLT(Num(1200), EstimatorSeconds)
    /\ args.nowSeconds - args.latestBlockTimestamp = 1100
    /\ report.timeAvg = 1200000
    /\ report.timeOffset = -1100000

\* C14: every report of calcDifficultyAdjustment, in every variant and for
\* every input and cache, has progressPercent = 100, remainingBlocks = 1,
\* expectedBlocks = 1 and nextRetargetHeight = blockHeight + 1.
C14_StructuralInvariants ==
    Reported
        => /\ report.progressPercent = 100
           /\ report.remainingBlocks = 1
           /\ report.expectedBlocks = 1
           /\ report.nextRetargetHeight = args.blockHeight + 1

C14_Witness ==
    /\ Reported
    /\ args.variant = "average"
    /\ args.blockHeight = 200
    /\ Len(blocksCache) = 4
    /\ report.progressPercent = 100
    /\ report.nextRetargetHeight = 201

\* C15: in every report timeAvg = floor(referenceSolveTimeSeconds * 1000),
\* the reference being the estimator output after the testnet ceiling,
\* estimatedRetargetDate = nowSeconds * 1000 + timeAvg, remainingTime =
\* timeAvg and previousTime is the caller's DATime unchanged.
C15_TimeFields ==
    Reported
        => /\ IsFloorMillis(report.timeAvg, ReferenceSeconds)
           /\ report.estimatedRetargetDate = args.nowSeconds * 1000 + report.timeAvg
           /\ report.remainingTime = report.timeAvg
           /\ report.previousTime = args.DATime

C15_Witness ==
    /\ Reported
    /\ args.variant = "asert"
    /\ args.DATime = 1000
    /\ args.nowSeconds = 2100
    /\ ReferenceSeconds = Rat(152, 3)
    /\ report.timeAvg = 50666
    /\ report.estimatedRetargetDate = 2150666
    /\ report.previousTime = 1000

\* C16: getDifficultyAdjustment returns null exactly when the block cache
\* holds no sample, and a report, with every field a number, whenever the
\* cache holds at least one sample.
C16_NullIffEmpty ==
    (args.fn = "get")
        => /\ (report = Null) <=> (Len(blocksCache) = 0)
           /\ Len(blocksCache) > 0
                  => /\ DOMAIN report =
                            {"progressPercent", "difficultyChange", "estimatedRetargetDate",
                             "remainingBlocks", "remainingTime", "previousRetarget",
                             "previousTime", "nextRetargetHeight", "timeAvg",
                             "timeOffset", "expectedBlocks"}
                     /\ IsFinite(report.difficultyChange)
                     /\ IsFinite(report.previousRetarget)
                     /\ report.timeAvg \in Int
                     /\ report.timeOffset \in Int
                     /\ report.estimatedRetargetDate \in Int

C16_Witness ==
    /\ args.fn = "get"
    /\ Len(blocksCache) = 0
    /\ report = Null

C18_PreviousRetargetPolicy ==
    (Reported /\ args.variant \in {"asert", "lwma"})
        => /\ report.previousRetarget = report.difficultyChange
           /\ \A other \in (PreviousRetargets \cup {Num(7)}) \ {args.previousRetarget} :
                  CalcOf(args.variant, blocksCache, args.DATime, args.nowSeconds,
                         args.blockHeight, other, args.network,
                         args.latestBlockTimestamp) = report

C18_Witness ==
    /\ Reported
    /\ args.variant = "lwma"
    /\ args.previousRetarget = Rat(-5, 2)
    /\ RatLT(Num(0), report.difficultyChange)
    /\ report.previousRetarget = report.difficultyChange

----------------------------------------------------------------------------
(* Snapshot *)

----------------------------------------------------------------------------
(* The loop of calculateLWMAEstimate *)

\* C21: in calculateLWMAEstimate, whenever blocksAvailable >= 2, the loop
\* goes through exactly blocksAvailable adjacent pairs: no pair lacks its
\* previous block, so the early break is not taken, the weight sum is the
\* triangular number blocksAvailable * (blocksAvailable + 1) / 2, hence not
\* 0, and the returned average is the weighted sum over that number.
C21_TriangularWeightSum ==
    (op = "lwma" /\ PairsOf(blocksCache) >= 2)
        => LET sortedBlocks == SortByHeightDesc(blocksCache)
               blocksAvailable == LwmaBlocksAvailable(sortedBlocks)
               acc == LwmaLoop(sortedBlocks, blocksAvailable, 0,
                               [sumWeightedSolvetimes |-> 0, sumWeights |-> 0])
               triangular == (blocksAvailable * (blocksAvailable + 1)) \div 2
           IN  /\ blocksAvailable = PairsOf(blocksCache)
               /\ \A i \in 0..(blocksAvailable - 1) : i + 2 <= Len(sortedBlocks)
               /\ acc.sumWeights = triangular
               /\ acc.sumWeights # 0
               /\ result.weightedAvgSolvetime
                      = Rat(WeightedSolveTimeSum(blocksCache), triangular)

C21_Witness ==
    /\ op = "lwma"
    /\ Len(blocksCache) = 48
    /\ LET sortedBlocks == SortByHeightDesc(blocksCache)
       IN  LwmaLoop(sortedBlocks, 45, 0,
                    [sumWeightedSolvetimes |-> 0, sumWeights |-> 0]).sumWeights = 1035
    /\ result.weightedAvgSolvetime # Num(150)

----------------------------------------------------------------------------
(* Order independence *)

DistinctHeights(cache) ==
    \A i, j \in 1..Len(cache) : cache[i].height = cache[j].height => i = j

RECURSIVE Reversed(_)
Reversed(s) == IF s = <<>> THEN <<>> ELSE Reversed(Tail(s)) \o <<Head(s)>>

Rotated(s) == IF s = <<>> THEN <<>> ELSE Tail(s) \o <<Head(s)>>

\* The second element first, the first one last, and so on inwards
RECURSIVE Shuffled(_)
Shuffled(s) ==
    IF Len(s) < 2 THEN s
    ELSE <<s[2]>> \o Shuffled(SubSeq(s, 3, Len(s))) \o <<s[1]>>

RECURSIVE Arranged(_, _, _)
Arranged(cache, p, j) ==
    IF j > Len(cache) THEN <<>> ELSE <<cache[p[j]]>> \o Arranged(cache, p, j + 1)

\* The permutations of the array: all of them up to OrderLen samples, four
\* of them for longer arrays
Rearrangements(cache) ==
    IF Len(cache) <= OrderLen
    THEN { Arranged(cache, p, 1) : p \in Permutations(1..Len(cache)) }
    ELSE { Reversed(cache), Rotated(cache), Shuffled(cache), Shuffled(Reversed(cache)) }

\* C22: for samples of pairwise distinct heights, calculateASERTEstimate and
\* calculateLWMAEstimate return the same result for every permutation of the
\* input array, and the window is the descending-by-height ordering of the
\* samples for each of them.
C22_OrderIndependence ==
    (Called /\ DistinctHeights(blocksCache))
        => \A permuted \in Rearrangements(blocksCache) :
               /\ Estimate(permuted) = result
               /\ SortByHeightDesc(permuted) = NewestFirst(blocksCache)

C22_Witness ==
    /\ Called
    /\ DistinctHeights(blocksCache)
    /\ Len(blocksCache) = 4
    /\ Cardinality(Rearrangements(blocksCache)) = 24
    /\ blocksCache # NewestFirst(blocksCache)
    /\ result.difficultyChange # Num(0)

----------------------------------------------------------------------------
(* The latest block *)

\* C23: the latestBlockTimestamp that getDifficultyAdjustment passes to
\* calcDifficultyAdjustment is the timestamp of the sample of greatest height
\* in the block cache, the sample the estimator puts first in its window,
\* whatever the order of the array the block cache returns.
C23_LatestIsGreatestHeight ==
    (args.fn = "get" /\ report # Null)
        => /\ args.latestBlockTimestamp = NewestFirst(args.snapshot)[1].timestamp
           /\ args.latestBlockTimestamp = SortByHeightDesc(args.snapshot)[1].timestamp

----------------------------------------------------------------------------
(* Statelessness *)

====
